---- MODULE Spec2Model ----
(***************************************************************************)
(* Model of the weather Query Service (src/weather.py): WeatherContext,    *)
(* the session state with its bounded histories and derived alerts, and    *)
(* WeatherModel, whose coroutines fetch from the NWS API and update the    *)
(* context.  A coroutine is a task whose steps are the code between two    *)
(* awaits of make_nws_request; what the API answers is the environment's   *)
(* choice.  JSON objects are records, a missing key is a field outside     *)
(* DOMAIN, {} is the empty function, lists are sequences.                  *)
(***************************************************************************)
EXTENDS Integers, Sequences, FiniteSets, TLC

VARIABLES
    location_history,     \* WeatherContext.location_history
    last_queries,         \* WeatherContext.last_queries (failed requests)
    user_preferences,     \* WeatherContext.user_preferences
    alert_history,        \* WeatherContext.alert_history
    monitoring_settings,  \* WeatherContext.monitoring_settings
    weather_trends,       \* WeatherContext.weather_trends
    user_interactions,    \* WeatherContext.user_interactions
    alert_thresholds,     \* WeatherContext.alert_thresholds
    clock,                \* datetime.now(): the value of the next reading
    tasks,                \* per task: the coroutine's position and locals
    calls,                \* number of operations started so far
    ins_location,         \* history: every record appended to location_history
    ins_interaction,      \* history: every record appended to user_interactions
    ins_trend,            \* history: every record appended to weather_trends
    ins_alert,            \* history: every record appended to alert_history
    gateway_failures,     \* history: number of failed make_nws_request calls
    monitor_called        \* history: monitor_conditions was called at least once

context == <<location_history, last_queries, user_preferences, alert_history,
             monitoring_settings, weather_trends, user_interactions,
             alert_thresholds>>
history == <<ins_location, ins_interaction, ins_trend, ins_alert,
             gateway_failures, monitor_called>>
vars == <<context, clock, tasks, calls, history>>

(***************************************************************************)
(* Bounds of the model.                                                    *)
(***************************************************************************)
MaxCalls == 3          \* operations per behaviour of Spec
MaxSessionCalls == 5   \* operations per behaviour of SpecSession

Tasks == {"t1", "t2"}
MainTask == "t1"

(***************************************************************************)
(* Python values.                                                          *)
(***************************************************************************)
EmptyDict == <<>>
NoneValue == [None |-> TRUE]
HasKey(d, k) == k \in DOMAIN d
Get(d, k, default) == IF HasKey(d, k) THEN d[k] ELSE default
\* "not d" for d a dict or None
Falsy(d) == d = NoneValue \/ DOMAIN d = {}
Min(a, b) == IF a < b THEN a ELSE b
\* s[-n:]
LastN(s, n) == IF Len(s) <= n THEN s ELSE SubSeq(s, Len(s) - n + 1, Len(s))
\* s[:n]
FirstN(s, n) == SubSeq(s, 1, Min(n, Len(s)))

Return(v) == [kind |-> "return", value |-> v]
Raise(e) == [kind |-> "raise", exc |-> e]
Sentinel(s) == [text |-> s]

(***************************************************************************)
(* Capacities of the bounded histories.                                    *)
(***************************************************************************)
InteractionCapacity == 100
TrendCapacity == 24
LocationCapacity == 10
AlertCapacity == 50
HourlyPeriodLimit == 24
SummaryTrendWindow == 3
DefaultInterval == 15

(***************************************************************************)
(* WeatherContext                                                          *)
(***************************************************************************)
DefaultThresholds ==
    [temperature |-> [min |-> 32, max |-> 90],
     wind_speed |-> [min |-> 0, max |-> 30]]

InteractionRecord(action, details, now) ==
    [action |-> action, details |-> details, timestamp |-> now]
TrendRecord(conditions, now) == [conditions |-> conditions, timestamp |-> now]

\* add_interaction: the new value of user_interactions
add_interaction(interactions, action, details, now) ==
    LastN(Append(interactions, InteractionRecord(action, details, now)),
          InteractionCapacity)

\* update_weather_trends: the new value of weather_trends
update_weather_trends(trends, conditions, now) ==
    LastN(Append(trends, TrendRecord(conditions, now)), TrendCapacity)

TemperatureAlert(temp, which) ==
    [alert |-> "Temperature Alert", value |-> temp, text |-> which]
WindAlert(wind) ==
    [alert |-> "Wind Alert", value |-> wind, text |-> "exceeds maximum threshold"]
BelowMinimum == "is below minimum threshold"
AboveMaximum == "is above maximum threshold"

\* conditions.get(k) is truthy: the key is present and its number is not 0
TruthyNumber(conditions, k) == HasKey(conditions, k) /\ conditions[k] # 0

\* Variant: the two temperature tests as independent ifs
temperature_alerts_independent(thresholds, conditions) ==
    IF TruthyNumber(conditions, "temperature")
    THEN (IF conditions.temperature < thresholds.temperature.min
          THEN <<TemperatureAlert(conditions.temperature, BelowMinimum)>>
          ELSE <<>>)
         \o (IF conditions.temperature > thresholds.temperature.max
             THEN <<TemperatureAlert(conditions.temperature, AboveMaximum)>>
             ELSE <<>>)
    ELSE <<>>

temperature_alerts(thresholds, conditions) ==
    IF TruthyNumber(conditions, "temperature")
    THEN IF conditions.temperature < thresholds.temperature.min
         THEN <<TemperatureAlert(conditions.temperature, BelowMinimum)>>
         ELSE IF conditions.temperature > thresholds.temperature.max
              THEN <<TemperatureAlert(conditions.temperature, AboveMaximum)>>
              ELSE <<>>
    ELSE <<>>

wind_alerts(thresholds, conditions) ==
    IF TruthyNumber(conditions, "wind_speed")
       /\ conditions.wind_speed > thresholds.wind_speed.max
    THEN <<WindAlert(conditions.wind_speed)>>
    ELSE <<>>

check_alert_conditions(thresholds, conditions) ==
    temperature_alerts(thresholds, conditions) \o wind_alerts(thresholds, conditions)

(***************************************************************************)
(* WeatherModel                                                            *)
(***************************************************************************)
\* The record update_context appends (state is not given by any caller)
LocationRecord(lat, lon, now) ==
    [lat |-> lat, lon |-> lon, state |-> "None", timestamp |-> now]

\* update_context: the new value of location_history
update_context(locations, lat, lon, now) ==
    LastN(Append(locations, LocationRecord(lat, lon, now)), LocationCapacity)

(***************************************************************************)
(* Strings the code parses are sequences of one-character strings.         *)
(***************************************************************************)
Digits == {"0", "1", "2", "3", "4", "5", "6", "7", "8", "9"}
DigitValue(c) ==
    CASE c = "0" -> 0 [] c = "1" -> 1 [] c = "2" -> 2 [] c = "3" -> 3
      [] c = "4" -> 4 [] c = "5" -> 5 [] c = "6" -> 6 [] c = "7" -> 7
      [] c = "8" -> 8 [] c = "9" -> 9

RECURSIVE DropSpaces(_)
DropSpaces(s) ==
    IF s = <<>> THEN <<>>
    ELSE IF Head(s) = " " THEN DropSpaces(Tail(s)) ELSE s

RECURSIVE TakeWord(_)
TakeWord(s) ==
    IF s = <<>> \/ Head(s) = " " THEN <<>>
    ELSE <<Head(s)>> \o TakeWord(Tail(s))

\* str.split(): the whitespace-separated words of s
RECURSIVE Split(_)
Split(s) ==
    LET r == DropSpaces(s) IN
    IF r = <<>> THEN <<>>
    ELSE LET w == TakeWord(r) IN
         <<w>> \o Split(SubSeq(r, Len(w) + 1, Len(r)))

RECURSIVE DecimalValue(_)
DecimalValue(w) ==
    IF w = <<>> THEN 0
    ELSE 10 * DecimalValue(SubSeq(w, 1, Len(w) - 1)) + DigitValue(w[Len(w)])

\* float(w) for w a string: the words of the model are unsigned decimal
\* integers, which float() converts, or words float() rejects
IsNumeral(w) == w # <<>> /\ \A i \in 1..Len(w) : w[i] \in Digits
Float(w) ==
    IF IsNumeral(w) THEN [ok |-> TRUE, value |-> DecimalValue(w)]
    ELSE [ok |-> FALSE, exc |-> "ValueError"]

\* float(current.get("windSpeed", "0").split()[0])
wind_speed_of(current) ==
    LET words == Split(Get(current, "windSpeed", <<"0">>)) IN
    IF words = <<>> THEN [ok |-> FALSE, exc |-> "IndexError"]
    ELSE Float(words[1])

\* The conditions dictionary get_current_conditions builds from a period;
\* float() of a number is that number
conditions_of(current) ==
    LET wind == wind_speed_of(current) IN
    IF ~wind.ok THEN [ok |-> FALSE, exc |-> wind.exc]
    ELSE [ok |-> TRUE,
          conditions |->
              [temperature |-> Get(current, "temperature", 0),
               wind_speed |-> wind.value,
               conditions |-> Get(current, "shortForecast", "None"),
               humidity |-> Get(Get(current, "relativeHumidity", EmptyDict),
                                "value", 0)]]

(***************************************************************************)
(* The Gateway.  A reply is what the request meets: an exception inside    *)
(* the try block (transport error, error status, undecodable body) or a    *)
(* decoded JSON document.                                                  *)
(***************************************************************************)
Failure(e) == [status |-> "error", error |-> e]
Ok(json) == [status |-> "ok", json |-> json]

\* Variant: the except clause returns None without recording the failure
make_nws_request_unlogged(queries, url, reply, now) ==
    IF reply.status = "ok"
    THEN [data |-> reply.json, last_queries |-> queries, now |-> now]
    ELSE [data |-> NoneValue, last_queries |-> queries, now |-> now]

\* make_nws_request: the value returned, the new last_queries and the clock
\* after the call
make_nws_request(queries, url, reply, now) ==
    IF reply.status = "ok"
    THEN [data |-> reply.json, last_queries |-> queries, now |-> now]
    ELSE [data |-> NoneValue,
          last_queries |-> Append(queries, [url |-> url, error |-> reply.error,
                                            timestamp |-> now]),
          now |-> now + 1]

PointsUrl(args) == <<"/points/", args.lat, args.lon>>
RadarUrl == <<"/radar/stations">>
AlertsUrl(args) == <<"/alerts/active/area/", args.state>>

LocationSentinel == Sentinel("Unable to fetch location data.")
ForecastSentinel == Sentinel("Unable to fetch forecast data.")
HourlySentinel == Sentinel("Unable to fetch hourly forecast data.")
RadarSentinel == Sentinel("Unable to fetch radar data.")
AlertsSentinel == Sentinel("Unable to fetch alerts or no alerts found.")
NoAlertsSentinel == Sentinel("No active alerts for this state.")
NoStationSentinel == Sentinel("No radar stations found nearby.")

\* What a coroutine does next
Returns(v) == [next |-> "return", value |-> v]
Raises(e) == [next |-> "raise", exc |-> e]
Fetches(url) == [next |-> "fetch", url |-> url]

\* From the points reply to the second request: the code of the five
\* coroutines between their two awaits, for the endpoint named key
after_points(points_data, key) ==
    IF Falsy(points_data) THEN Returns(LocationSentinel)
    ELSE IF ~HasKey(points_data, "properties") THEN Raises("KeyError")
    ELSE IF ~HasKey(points_data.properties, key) THEN Raises("KeyError")
    ELSE Fetches(<<points_data.properties[key]>>)

\* Variant: no test of points_data before the lookup
current_after_points_unchecked(points_data) ==
    IF points_data = NoneValue THEN Raises("TypeError")
    ELSE IF DOMAIN points_data = {} THEN Raises("KeyError")
    ELSE after_points(points_data, "forecast")

\* Variant: the radar request is made whatever the points request returned
radar_after_points_unchecked(points_data) == Fetches(RadarUrl)

current_after_points(points_data) == after_points(points_data, "forecast")
hourly_after_points(points_data) == after_points(points_data, "forecastHourly")
daily_after_points(points_data) == after_points(points_data, "forecast")
monitor_after_points(points_data) == after_points(points_data, "forecast")
radar_after_points(points_data) ==
    IF Falsy(points_data) THEN Returns(LocationSentinel) ELSE Fetches(RadarUrl)


(***************************************************************************)
(* From the second reply to the result.                                    *)
(***************************************************************************)
Updates(current, conditions) ==
    [next |-> "update", current |-> current, conditions |-> conditions]

\* forecast_data["properties"]["periods"][0], or the exception it raises
first_period(forecast_data) ==
    IF ~HasKey(forecast_data.properties, "periods")
    THEN [ok |-> FALSE, exc |-> "KeyError"]
    ELSE IF forecast_data.properties.periods = <<>>
    THEN [ok |-> FALSE, exc |-> "IndexError"]
    ELSE [ok |-> TRUE, current |-> forecast_data.properties.periods[1]]

current_after_forecast(forecast_data) ==
    IF Falsy(forecast_data) \/ ~HasKey(forecast_data, "properties")
    THEN Returns(ForecastSentinel)
    ELSE LET p == first_period(forecast_data) IN
         IF ~p.ok THEN Raises(p.exc)
         ELSE LET c == conditions_of(p.current) IN
              IF ~c.ok THEN Raises(c.exc)
              ELSE Updates(p.current, c.conditions)

\* The text of a report is its title and the values formatted into it
current_report(current, alerts) ==
    [text |-> "Current Conditions:", period |-> current, alerts |-> alerts]

\* Variant: every period of the reply is formatted
hourly_periods_unsliced(hourly_data) == hourly_data.properties.periods

hourly_periods(hourly_data) ==
    FirstN(hourly_data.properties.periods, HourlyPeriodLimit)

hourly_after_data(hourly_data) ==
    IF Falsy(hourly_data) \/ ~HasKey(hourly_data, "properties")
    THEN Returns(HourlySentinel)
    ELSE IF ~HasKey(hourly_data.properties, "periods") THEN Raises("KeyError")
    ELSE Returns([text |-> "Time:", blocks |-> hourly_periods(hourly_data)])

daily_after_forecast(forecast_data) ==
    IF Falsy(forecast_data) \/ ~HasKey(forecast_data, "properties")
    THEN Returns(ForecastSentinel)
    ELSE IF ~HasKey(forecast_data.properties, "periods") THEN Raises("KeyError")
    ELSE Returns([text |-> "Day:", blocks |-> forecast_data.properties.periods])

\* The square of the distance the code computes; the code compares the
\* square roots, which are ordered as the squares are
DistanceSq(station, lat, lon) ==
    LET station_lat == station.geometry.coordinates[2]
        station_lon == station.geometry.coordinates[1]
    IN (station_lat - lat) * (station_lat - lat)
       + (station_lon - lon) * (station_lon - lon)

\* Variant: a station at the same distance replaces the current choice
RECURSIVE nearest_station_last(_, _, _, _, _)
nearest_station_last(features, lat, lon, best, best_sq) ==
    IF features = <<>> THEN [station |-> best, distance_sq |-> best_sq]
    ELSE LET station == Head(features)
             d == DistanceSq(station, lat, lon)
         IN IF best = NoneValue \/ d <= best_sq
            THEN nearest_station_last(Tail(features), lat, lon, station, d)
            ELSE nearest_station_last(Tail(features), lat, lon, best, best_sq)

\* The loop over radar_data["features"]: best is nearest_station (NoneValue
\* before the first station), best_sq the square of min_distance
RECURSIVE nearest_station(_, _, _, _, _)
nearest_station(features, lat, lon, best, best_sq) ==
    IF features = <<>> THEN [station |-> best, distance_sq |-> best_sq]
    ELSE LET station == Head(features)
             d == DistanceSq(station, lat, lon)
         IN IF best = NoneValue \/ d < best_sq
            THEN nearest_station(Tail(features), lat, lon, station, d)
            ELSE nearest_station(Tail(features), lat, lon, best, best_sq)

radar_after_stations(radar_data, lat, lon) ==
    IF Falsy(radar_data) \/ ~HasKey(radar_data, "features")
    THEN Returns(RadarSentinel)
    ELSE LET n == nearest_station(radar_data.features, lat, lon, NoneValue, 0) IN
         IF n.station = NoneValue THEN Returns(NoStationSentinel)
         ELSE Returns([text |-> "Nearest Radar Station:",
                       station |-> n.station.properties,
                       distance_sq |-> n.distance_sq])

monitor_after_forecast(forecast_data) ==
    IF Falsy(forecast_data) \/ ~HasKey(forecast_data, "properties")
    THEN Returns(ForecastSentinel)
    ELSE LET p == first_period(forecast_data) IN
         IF ~p.ok THEN Raises(p.exc)
         ELSE [next |-> "report", current |-> p.current]

monitor_report(current, interval_minutes, last_updated) ==
    [text |-> "Weather Monitoring", last_updated |-> last_updated,
     period |-> current, interval |-> interval_minutes]

\* The alert get_alerts builds from a feature's properties
AlertRecord(props) ==
    [event |-> Get(props, "event", "Unknown"),
     area |-> Get(props, "areaDesc", "Unknown"),
     severity |-> Get(props, "severity", "Unknown"),
     description |-> Get(props, "description", "No description available"),
     instructions |-> Get(props, "instruction",
                          "No specific instructions provided")]

\* The loop of get_alerts over data["features"]: every alert is appended to
\* the history as it is built; feature["properties"] raises KeyError on a
\* feature without properties, and the loop ends there
RECURSIVE append_alerts(_, _, _)
append_alerts(features, alerts, alert_hist) ==
    IF features = <<>>
    THEN [ok |-> TRUE, alerts |-> alerts, alert_history |-> alert_hist]
    ELSE IF ~HasKey(Head(features), "properties")
    THEN [ok |-> FALSE, alerts |-> alerts, alert_history |-> alert_hist]
    ELSE LET alert == AlertRecord(Head(features).properties) IN
         append_alerts(Tail(features), Append(alerts, alert),
                       Append(alert_hist, alert))

\* get_alerts after its request: the result, the new alert_history and the
\* alerts appended
alerts_after_reply(data, alert_hist) ==
    IF Falsy(data) \/ ~HasKey(data, "features")
    THEN [result |-> Return(AlertsSentinel), alert_history |-> alert_hist,
          appended |-> <<>>]
    ELSE IF data.features = <<>>
    THEN [result |-> Return(NoAlertsSentinel), alert_history |-> alert_hist,
          appended |-> <<>>]
    ELSE LET loop == append_alerts(data.features, <<>>, alert_hist) IN
         IF ~loop.ok
         THEN [result |-> Raise("KeyError"), alert_history |-> loop.alert_history,
               appended |-> loop.alerts]
         ELSE [result |-> Return([text |-> "Event:", blocks |-> loop.alerts]),
               alert_history |-> LastN(loop.alert_history, AlertCapacity),
               appended |-> loop.alerts]

\* The text get_context_summary formats
summary_report(last_location, last_interaction, recent_trends) ==
    [text |-> "Context Summary:",
     last_location |->
         IF last_location # NoneValue
         THEN <<last_location.lat, last_location.lon, last_location.state>>
         ELSE <<"None">>,
     recent_queries |-> Len(last_queries),
     active_alerts |-> Len(alert_history),
     monitoring_active |->
         IF DOMAIN monitoring_settings # {} THEN "Yes" ELSE "No",
     last_interaction |->
         IF last_interaction # NoneValue
         THEN last_interaction.action ELSE "None",
     weather_trends |-> Len(recent_trends),
     temperature |-> <<alert_thresholds.temperature.min,
                       alert_thresholds.temperature.max>>,
     wind_speed |-> alert_thresholds.wind_speed.max]

\* Variant: the last records are read without testing the lists
get_context_summary_unguarded ==
    IF location_history = <<>> \/ user_interactions = <<>>
    THEN Raise("IndexError")
    ELSE Return(summary_report(location_history[Len(location_history)],
                               user_interactions[Len(user_interactions)],
                               LastN(weather_trends, SummaryTrendWindow)))

\* get_context_summary on the present context
get_context_summary ==
    LET last_location ==
            IF location_history # <<>>
            THEN location_history[Len(location_history)] ELSE NoneValue
        last_interaction ==
            IF user_interactions # <<>>
            THEN user_interactions[Len(user_interactions)] ELSE NoneValue
        recent_trends ==
            IF weather_trends # <<>>
            THEN LastN(weather_trends, SummaryTrendWindow) ELSE <<>>
    IN Return(summary_report(last_location, last_interaction, recent_trends))

(***************************************************************************)
(* Tasks: one coroutine call each.  pc is "idle" before the first call,    *)
(* the name of the request awaited ("points", "second", "alerts") while    *)
(* suspended, "done" once the call has returned or raised.  fetches,       *)
(* failed, refetches, pre and fetched are history: the requests issued by  *)
(* the call, the stage of its failed request, the requests issued after a  *)
(* failure, the context as it was when the call began, and the reply to    *)
(* the request after which the call ended.                                 *)
(***************************************************************************)
IdleTask ==
    [pc |-> "idle", op |-> "none", args |-> EmptyDict, url |-> <<>>,
     result |-> NoneValue, fetches |-> 0, failed |-> "none", refetches |-> 0,
     pre |-> EmptyDict, fetched |-> NoneValue]

Snapshot ==
    [location_history |-> location_history, last_queries |-> last_queries,
     alert_history |-> alert_history,
     monitoring_settings |-> monitoring_settings,
     weather_trends |-> weather_trends,
     user_interactions |-> user_interactions,
     alert_thresholds |-> alert_thresholds]

CanCall(t) == tasks[t].pc \in {"idle", "done"}

\* The task of a call suspended in its first request
Begin(op, args, stage, url) ==
    [pc |-> stage, op |-> op, args |-> args, url |-> url, result |-> NoneValue,
     fetches |-> 1, failed |-> "none", refetches |-> 0, pre |-> Snapshot,
     fetched |-> NoneValue]

\* The task of a call that ran to its end without a request
Completed(op, args, result) ==
    [pc |-> "done", op |-> op, args |-> args, url |-> <<>>, result |-> result,
     fetches |-> 0, failed |-> "none", refetches |-> 0, pre |-> Snapshot,
     fetched |-> NoneValue]

FailedAt(task, stage, reply) ==
    IF reply.status = "error" THEN stage ELSE task.failed

Finish(task, stage, reply, result) ==
    [task EXCEPT !.pc = "done", !.result = result,
                 !.failed = FailedAt(task, stage, reply),
                 !.fetched = reply]

\* The task after the code that follows the reply to its first request
Advance(task, reply, a) ==
    CASE a.next = "return" -> Finish(task, "points", reply, Return(a.value))
      [] a.next = "raise" -> Finish(task, "points", reply, Raise(a.exc))
      [] a.next = "fetch" ->
            [task EXCEPT !.pc = "second", !.url = a.url, !.fetches = @ + 1,
                         !.failed = FailedAt(task, "points", reply),
                         !.refetches =
                             IF FailedAt(task, "points", reply) # "none"
                             THEN @ + 1 ELSE @]

Failed(reply) == IF reply.status = "error" THEN 1 ELSE 0

(***************************************************************************)
(* Calls: the code of a coroutine up to its first await.                   *)
(***************************************************************************)
CallWithLocation(t, op, lat, lon) ==
    /\ location_history' = update_context(location_history, lat, lon, clock)
    /\ ins_location' = Append(ins_location, LocationRecord(lat, lon, clock))
    /\ clock' = clock + 1
    /\ calls' = calls + 1
    /\ tasks' = [tasks EXCEPT ![t] =
                    Begin(op, [lat |-> lat, lon |-> lon], "points",
                          PointsUrl([lat |-> lat, lon |-> lon]))]
    /\ UNCHANGED <<last_queries, user_preferences, alert_history,
                   monitoring_settings, weather_trends, user_interactions,
                   alert_thresholds, ins_interaction, ins_trend, ins_alert,
                   gateway_failures, monitor_called>>

get_current_conditions(t, lat, lon) ==
    /\ CanCall(t)
    /\ CallWithLocation(t, "get_current_conditions", lat, lon)
get_hourly_forecast(t, lat, lon) ==
    /\ CanCall(t)
    /\ CallWithLocation(t, "get_hourly_forecast", lat, lon)
get_daily_forecast(t, lat, lon) ==
    /\ CanCall(t)
    /\ CallWithLocation(t, "get_daily_forecast", lat, lon)
get_radar_data(t, lat, lon) ==
    /\ CanCall(t)
    /\ CallWithLocation(t, "get_radar_data", lat, lon)

\* The settings monitor_conditions stores
MonitoringSettings(lat, lon, interval_minutes, now) ==
    [lat |-> lat, lon |-> lon, interval |-> interval_minutes,
     last_update |-> now]

\* Variant: the settings are not written before the requests
monitoring_deferred(settings, lat, lon, interval_minutes, now) == settings

\* monitoring_settings when monitor_conditions reaches its first request
monitoring_at_call(settings, lat, lon, interval_minutes, now) ==
    MonitoringSettings(lat, lon, interval_minutes, now)

monitor_conditions(t, lat, lon, interval_minutes) ==
    /\ CanCall(t)
    /\ location_history' = update_context(location_history, lat, lon, clock)
    /\ ins_location' = Append(ins_location, LocationRecord(lat, lon, clock))
    /\ monitoring_settings' =
           monitoring_at_call(monitoring_settings, lat, lon, interval_minutes,
                              clock + 1)
    /\ clock' = clock + 2
    /\ calls' = calls + 1
    /\ monitor_called' = TRUE
    /\ tasks' = [tasks EXCEPT ![t] =
                    Begin("monitor_conditions",
                          [lat |-> lat, lon |-> lon,
                           interval_minutes |-> interval_minutes],
                          "points", PointsUrl([lat |-> lat, lon |-> lon]))]
    /\ UNCHANGED <<last_queries, user_preferences, alert_history,
                   weather_trends, user_interactions, alert_thresholds,
                   ins_interaction, ins_trend, ins_alert, gateway_failures>>

get_alerts(t, state) ==
    /\ CanCall(t)
    /\ calls' = calls + 1
    /\ tasks' = [tasks EXCEPT ![t] =
                    Begin("get_alerts", [state |-> state], "alerts",
                          AlertsUrl([state |-> state]))]
    /\ UNCHANGED <<context, clock, history>>

\* get_context_summary has no await: it runs from call to return in a step
context_summary(t) ==
    /\ CanCall(t)
    /\ tasks' = [tasks EXCEPT ![t] =
                    Completed("get_context_summary", EmptyDict,
                              get_context_summary)]
    /\ UNCHANGED <<context, clock, calls, history>>

(***************************************************************************)
(* The first reply: make_nws_request returns and the coroutine runs to its *)
(* second request or to its end.                                           *)
(***************************************************************************)
\* What make_nws_request gives task t for a reply to its pending request
Response(t, reply) ==
    make_nws_request(last_queries, tasks[t].url, reply, clock)

\* a is what the coroutine does after the reply
PointsReply(t, reply, a) ==
    /\ tasks[t].pc = "points"
    /\ last_queries' = Response(t, reply).last_queries
    /\ clock' = Response(t, reply).now
    /\ tasks' = [tasks EXCEPT ![t] = Advance(@, reply, a)]
    /\ gateway_failures' = gateway_failures + Failed(reply)
    /\ UNCHANGED <<location_history, user_preferences, alert_history,
                   monitoring_settings, weather_trends, user_interactions,
                   alert_thresholds, calls, ins_location, ins_interaction,
                   ins_trend, ins_alert, monitor_called>>

current_points(t, reply) ==
    /\ tasks[t].op = "get_current_conditions"
    /\ PointsReply(t, reply, current_after_points(Response(t, reply).data))
hourly_points(t, reply) ==
    /\ tasks[t].op = "get_hourly_forecast"
    /\ PointsReply(t, reply, hourly_after_points(Response(t, reply).data))
daily_points(t, reply) ==
    /\ tasks[t].op = "get_daily_forecast"
    /\ PointsReply(t, reply, daily_after_points(Response(t, reply).data))
radar_points(t, reply) ==
    /\ tasks[t].op = "get_radar_data"
    /\ PointsReply(t, reply, radar_after_points(Response(t, reply).data))
monitor_points(t, reply) ==
    /\ tasks[t].op = "monitor_conditions"
    /\ PointsReply(t, reply, monitor_after_points(Response(t, reply).data))

(***************************************************************************)
(* The second reply: the coroutine runs to its end.                        *)
(***************************************************************************)
Outcome(a) == IF a.next = "raise" THEN Raise(a.exc) ELSE Return(a.value)

\* hourly, daily and radar: nothing of the context is written
SecondReply(t, reply, a) ==
    /\ tasks[t].pc = "second"
    /\ last_queries' = Response(t, reply).last_queries
    /\ clock' = Response(t, reply).now
    /\ tasks' = [tasks EXCEPT ![t] = Finish(@, "second", reply, Outcome(a))]
    /\ gateway_failures' = gateway_failures + Failed(reply)
    /\ UNCHANGED <<location_history, user_preferences, alert_history,
                   monitoring_settings, weather_trends, user_interactions,
                   alert_thresholds, calls, ins_location, ins_interaction,
                   ins_trend, ins_alert, monitor_called>>

hourly_data(t, reply) ==
    /\ tasks[t].op = "get_hourly_forecast"
    /\ SecondReply(t, reply, hourly_after_data(Response(t, reply).data))
daily_forecast(t, reply) ==
    /\ tasks[t].op = "get_daily_forecast"
    /\ SecondReply(t, reply, daily_after_forecast(Response(t, reply).data))
radar_stations(t, reply) ==
    /\ tasks[t].op = "get_radar_data"
    /\ SecondReply(t, reply,
                   radar_after_stations(Response(t, reply).data,
                                        tasks[t].args.lat, tasks[t].args.lon))

current_forecast(t, reply) ==
    /\ tasks[t].pc = "second"
    /\ tasks[t].op = "get_current_conditions"
    /\ LET r == Response(t, reply)
           a == current_after_forecast(r.data)
       IN
       /\ last_queries' = r.last_queries
       /\ IF a.next = "update"
          THEN LET alerts == check_alert_conditions(alert_thresholds,
                                                    a.conditions)
                   details == [lat |-> tasks[t].args.lat,
                               lon |-> tasks[t].args.lon,
                               conditions |-> a.conditions,
                               alerts |-> alerts]
               IN
               /\ weather_trends' =
                      update_weather_trends(weather_trends, a.conditions, r.now)
               /\ ins_trend' =
                      Append(ins_trend, TrendRecord(a.conditions, r.now))
               /\ user_interactions' =
                      add_interaction(user_interactions,
                                      "get_current_conditions", details,
                                      r.now + 1)
               /\ ins_interaction' =
                      Append(ins_interaction,
                             InteractionRecord("get_current_conditions",
                                               details, r.now + 1))
               /\ clock' = r.now + 2
               /\ tasks' = [tasks EXCEPT ![t] =
                               Finish(@, "second", reply,
                                      Return(current_report(a.current, alerts)))]
          ELSE /\ clock' = r.now
               /\ tasks' = [tasks EXCEPT ![t] =
                               Finish(@, "second", reply, Outcome(a))]
               /\ UNCHANGED <<weather_trends, user_interactions, ins_trend,
                              ins_interaction>>
    /\ gateway_failures' = gateway_failures + Failed(reply)
    /\ UNCHANGED <<location_history, user_preferences, alert_history,
                   monitoring_settings, alert_thresholds, calls, ins_location,
                   ins_alert, monitor_called>>

monitor_forecast(t, reply) ==
    /\ tasks[t].pc = "second"
    /\ tasks[t].op = "monitor_conditions"
    /\ LET r == Response(t, reply)
           a == monitor_after_forecast(r.data)
       IN
       /\ last_queries' = r.last_queries
       /\ IF a.next = "report"
          THEN /\ clock' = r.now + 1
               /\ tasks' = [tasks EXCEPT ![t] =
                               Finish(@, "second", reply,
                                      Return(monitor_report(
                                          a.current,
                                          tasks[t].args.interval_minutes,
                                          r.now)))]
          ELSE /\ clock' = r.now
               /\ tasks' = [tasks EXCEPT ![t] =
                               Finish(@, "second", reply, Outcome(a))]
    /\ gateway_failures' = gateway_failures + Failed(reply)
    /\ UNCHANGED <<location_history, user_preferences, alert_history,
                   monitoring_settings, weather_trends, user_interactions,
                   alert_thresholds, calls, ins_location, ins_interaction,
                   ins_trend, ins_alert, monitor_called>>

alerts_reply(t, reply) ==
    /\ tasks[t].pc = "alerts"
    /\ tasks[t].op = "get_alerts"
    /\ LET r == Response(t, reply)
           a == alerts_after_reply(r.data, alert_history)
       IN
       /\ last_queries' = r.last_queries
       /\ clock' = r.now
       /\ alert_history' = a.alert_history
       /\ ins_alert' = ins_alert \o a.appended
       /\ tasks' = [tasks EXCEPT ![t] = Finish(@, "alerts", reply, a.result)]
    /\ gateway_failures' = gateway_failures + Failed(reply)
    /\ UNCHANGED <<location_history, user_preferences, monitoring_settings,
                   weather_trends, user_interactions, alert_thresholds, calls,
                   ins_location, ins_interaction, ins_trend, monitor_called>>

\* A direct call of WeatherContext.check_alert_conditions
check_alerts(t, conditions) ==
    /\ CanCall(t)
    /\ tasks' = [tasks EXCEPT ![t] =
                    Completed("check_alert_conditions",
                              [conditions |-> conditions],
                              Return(check_alert_conditions(alert_thresholds,
                                                            conditions)))]
    /\ UNCHANGED <<context, clock, calls, history>>

(***************************************************************************)
(* The environment: what callers pass and what the API answers.            *)
(***************************************************************************)
Str10mph == <<"1", "0", " ", "m", "p", "h">>
Str45mph == <<"4", "5", " ", "m", "p", "h">>
Str0mph == <<"0", " ", "m", "p", "h">>
StrCalm == <<"C", "a", "l", "m">>
StrEmpty == <<>>

Period(temp, wind) ==
    [temperature |-> temp, windSpeed |-> wind, shortForecast |-> "Sunny",
     relativeHumidity |-> [value |-> 60]]
PeriodNoTemperature(wind) == [windSpeed |-> wind, shortForecast |-> "Sunny"]
PeriodNoWind(temp) == [temperature |-> temp, shortForecast |-> "Sunny"]

WellFormedPeriods ==
    {Period(50, Str10mph), Period(95, Str10mph), Period(50, Str45mph),
     Period(20, Str45mph), Period(0, Str10mph), Period(50, Str0mph),
     PeriodNoTemperature(Str10mph), PeriodNoWind(50)}
MalformedPeriods == {Period(50, StrCalm), Period(50, StrEmpty)}

Timeout == Failure("timeout")
Forecast(periods) == [properties |-> [periods |-> periods]]
PointsData ==
    [properties |-> [forecast |-> "/forecast", forecastHourly |-> "/hourly"]]

PointsReplies ==
    {Timeout, Ok(EmptyDict), Ok(PointsData), Ok([properties |-> [cwa |-> "OKX"]])}

MalformedForecasts ==
    {Ok(EmptyDict), Ok([type |-> "Feature"]), Ok([properties |-> [units |-> "us"]]),
     Ok(Forecast(<<>>))}

ForecastReplies ==
    {Timeout} \cup MalformedForecasts
    \cup {Ok(Forecast(<<p>>)) : p \in WellFormedPeriods \cup MalformedPeriods}

HourlyPeriods(n) == [i \in 1..n |-> [startTime |-> i, temperature |-> 50]]
HourlyReplies ==
    {Timeout, Ok(EmptyDict), Ok([properties |-> [units |-> "us"]])}
    \cup {Ok(Forecast(HourlyPeriods(n))) :
            n \in {0, 1, HourlyPeriodLimit, HourlyPeriodLimit + 1}}

DailyReplies ==
    {Timeout, Ok([properties |-> [units |-> "us"]]),
     Ok(Forecast(<<Period(50, Str10mph), Period(95, Str45mph)>>))}

Station(name, lat, lon) ==
    [geometry |-> [coordinates |-> <<lon, lat>>], properties |-> [name |-> name]]
RadarReplies ==
    {Timeout, Ok([type |-> "FeatureCollection"]), Ok([features |-> <<>>]),
     Ok([features |-> <<Station("KOKX", 41, -73), Station("KDIX", 40, -74)>>])}

Feature(event) == [properties |-> [event |-> event, severity |-> "Severe"]]
FeatureNoProperties == [id |-> "urn:oid"]
\* A full page of alerts
ManyFeatures ==
    [i \in 1..AlertCapacity |->
        IF i % 2 = 0 THEN Feature("Flood Warning") ELSE Feature("Heat Advisory")]
AlertsReplies ==
    {Timeout, Ok([title |-> "alerts"]), Ok([features |-> <<>>]),
     Ok([features |-> <<Feature("Flood Warning")>>]),
     Ok([features |-> <<Feature("Heat Advisory"), FeatureNoProperties>>]),
     Ok([features |-> ManyFeatures])}

Lats == {40}
Lons == {-74}
Intervals == {5, DefaultInterval}
States == {"NY"}

(***************************************************************************)
(* Spec: one caller, every operation, every reply.                         *)
(***************************************************************************)
Init ==
    /\ location_history = <<>>
    /\ last_queries = <<>>
    /\ user_preferences = EmptyDict
    /\ alert_history = <<>>
    /\ monitoring_settings = EmptyDict
    /\ weather_trends = <<>>
    /\ user_interactions = <<>>
    /\ alert_thresholds = DefaultThresholds
    /\ clock = 0
    /\ tasks = [t \in Tasks |-> IdleTask]
    /\ calls = 0
    /\ ins_location = <<>>
    /\ ins_interaction = <<>>
    /\ ins_trend = <<>>
    /\ ins_alert = <<>>
    /\ gateway_failures = 0
    /\ monitor_called = FALSE

Next ==
    \/ \E lat \in Lats, lon \in Lons :
           calls < MaxCalls /\ get_current_conditions(MainTask, lat, lon)
    \/ \E lat \in Lats, lon \in Lons :
           calls < MaxCalls /\ get_hourly_forecast(MainTask, lat, lon)
    \/ \E lat \in Lats, lon \in Lons :
           calls < MaxCalls /\ get_daily_forecast(MainTask, lat, lon)
    \/ \E lat \in Lats, lon \in Lons :
           calls < MaxCalls /\ get_radar_data(MainTask, lat, lon)
    \/ \E lat \in Lats, lon \in Lons, m \in Intervals :
           calls < MaxCalls /\ monitor_conditions(MainTask, lat, lon, m)
    \/ \E state \in States : calls < MaxCalls /\ get_alerts(MainTask, state)
    \/ \E reply \in PointsReplies : current_points(MainTask, reply)
    \/ \E reply \in ForecastReplies : current_forecast(MainTask, reply)
    \/ \E reply \in PointsReplies : hourly_points(MainTask, reply)
    \/ \E reply \in HourlyReplies : hourly_data(MainTask, reply)
    \/ \E reply \in PointsReplies : daily_points(MainTask, reply)
    \/ \E reply \in DailyReplies : daily_forecast(MainTask, reply)
    \/ \E reply \in PointsReplies : radar_points(MainTask, reply)
    \/ \E reply \in RadarReplies : radar_stations(MainTask, reply)
    \/ \E reply \in PointsReplies : monitor_points(MainTask, reply)
    \/ \E reply \in ForecastReplies : monitor_forecast(MainTask, reply)
    \/ \E reply \in AlertsReplies : alerts_reply(MainTask, reply)
    \/ context_summary(MainTask)

Spec == Init /\ [][Next]_vars


(***************************************************************************)
(* SpecSession: one caller, a longer session of well-formed replies:       *)
(* current conditions at two places, a monitoring call whose request       *)
(* fails, alerts, and the summary.                                         *)
(***************************************************************************)
SessionLats == {40, 41}
SessionForecast == Ok(Forecast(<<Period(50, Str10mph)>>))
SessionAlerts == Ok([features |-> <<Feature("Flood Warning")>>])

NextSession ==
    \/ \E lat \in SessionLats, lon \in Lons :
           calls < MaxSessionCalls
           /\ get_current_conditions(MainTask, lat, lon)
    \/ current_points(MainTask, Ok(PointsData))
    \/ current_forecast(MainTask, SessionForecast)
    \/ \E lat \in Lats, lon \in Lons, m \in Intervals :
           calls < MaxSessionCalls /\ monitor_conditions(MainTask, lat, lon, m)
    \/ monitor_points(MainTask, Timeout)
    \/ \E state \in States :
           calls < MaxSessionCalls /\ get_alerts(MainTask, state)
    \/ alerts_reply(MainTask, SessionAlerts)
    \/ context_summary(MainTask)

SpecSession == Init /\ [][NextSession]_vars

(***************************************************************************)
(* SpecDerive: check_alert_conditions on every snapshot under every        *)
(* threshold configuration.                                                *)
(***************************************************************************)
ThresholdConfigs ==
    {[temperature |-> [min |-> lo, max |-> hi],
      wind_speed |-> [min |-> 0, max |-> w]] :
        lo \in {32, 60, 95}, hi \in {50, 90}, w \in {-5, 0, 30}}

Snapshots ==
    {[temperature |-> temp, wind_speed |-> wind] :
        temp \in {-10, 0, 20, 50, 70, 95}, wind \in {0, 10, 30, 45}}
    \cup {[temperature |-> temp] : temp \in {-10, 0, 20, 50, 70, 95}}
    \cup {[wind_speed |-> wind] : wind \in {0, 10, 30, 45}}
    \cup {EmptyDict}

InitDerive ==
    /\ location_history = <<>>
    /\ last_queries = <<>>
    /\ user_preferences = EmptyDict
    /\ alert_history = <<>>
    /\ monitoring_settings = EmptyDict
    /\ weather_trends = <<>>
    /\ user_interactions = <<>>
    /\ alert_thresholds \in ThresholdConfigs
    /\ clock = 0
    /\ tasks = [t \in Tasks |-> IdleTask]
    /\ calls = 0
    /\ ins_location = <<>>
    /\ ins_interaction = <<>>
    /\ ins_trend = <<>>
    /\ ins_alert = <<>>
    /\ gateway_failures = 0
    /\ monitor_called = FALSE

NextDerive == \E conditions \in Snapshots : check_alerts(MainTask, conditions)

SpecDerive == InitDerive /\ [][NextDerive]_vars


(***************************************************************************)
(* SpecRadar: one caller of get_radar_data, every station list of up to    *)
(* MaxStations stations.  Coordinates are whole degrees; from (1, 1) the   *)
(* stations at (0, 0), (2, 0) and (0, 2) are at the same distance and the  *)
(* one at (10, 10) is farther.                                             *)
(***************************************************************************)
MaxStations == 3
MaxRadarCalls == 1

RadarStations ==
    {Station("KOKX", 0, 0), Station("KDIX", 10, 10), Station("KENX", 0, 2),
     Station("KBGM", 2, 0)}
StationLists == UNION {[1..n -> RadarStations] : n \in 0..MaxStations}
RadarDocuments ==
    {Timeout, Ok([type |-> "FeatureCollection"])}
    \cup {Ok([features |-> features]) : features \in StationLists}
RadarLats == {1, 9}
RadarLons == {1, 9}

NextRadar ==
    \/ \E lat \in RadarLats, lon \in RadarLons :
           calls < MaxRadarCalls /\ get_radar_data(MainTask, lat, lon)
    \/ \E reply \in PointsReplies : radar_points(MainTask, reply)
    \/ \E reply \in RadarDocuments : radar_stations(MainTask, reply)

SpecRadar == Init /\ [][NextRadar]_vars


(***************************************************************************)
(* SpecConcurrent: the tool coroutines of two callers on one event loop,   *)
(* sharing the context.  A step is the code of one coroutine from one      *)
(* await of make_nws_request to the next, so the steps of the two tasks    *)
(* interleave at those awaits only.                                        *)
(***************************************************************************)
MaxConcurrentCalls == 3

ConcurrentForecasts ==
    {Timeout, SessionForecast, Ok(Forecast(<<Period(95, Str45mph)>>))}

NextConcurrent ==
    \/ \E t \in Tasks, lat \in SessionLats, lon \in Lons :
           calls < MaxConcurrentCalls /\ get_current_conditions(t, lat, lon)
    \/ \E t \in Tasks, state \in States :
           calls < MaxConcurrentCalls /\ get_alerts(t, state)
    \/ \E t \in Tasks, reply \in PointsReplies : current_points(t, reply)
    \/ \E t \in Tasks, reply \in ConcurrentForecasts : current_forecast(t, reply)
    \/ \E t \in Tasks, reply \in AlertsReplies : alerts_reply(t, reply)

SpecConcurrent == Init /\ [][NextConcurrent]_vars


(***************************************************************************)
(* Properties.                                                             *)
(***************************************************************************)
Caller == tasks[MainTask]
Done(op) == Caller.pc = "done" /\ Caller.op = op
Returned(v) == Caller.pc = "done" /\ Caller.result = Return(v)
IsPrefix(a, b) == Len(a) <= Len(b) /\ SubSeq(b, 1, Len(a)) = a
UnableSentinels ==
    {LocationSentinel, ForecastSentinel, HourlySentinel, RadarSentinel,
     AlertsSentinel}

\* C1: between operations every bounded history holds exactly the last
\* `capacity` records appended to it, in the order of their insertion, so
\* its length is min(N, capacity) after N insertions.
C1_BoundedHistories ==
    CanCall(MainTask) =>
        /\ location_history = LastN(ins_location, LocationCapacity)
        /\ user_interactions = LastN(ins_interaction, InteractionCapacity)
        /\ weather_trends = LastN(ins_trend, TrendCapacity)
        /\ alert_history = LastN(ins_alert, AlertCapacity)

\* C2: get_current_conditions returns "Unable to fetch location data." when
\* its points request fails and "Unable to fetch forecast data." when the
\* points request succeeds and the forecast request fails; the call ends
\* there, by a return.
C2_CurrentConditionsSentinels ==
    Caller.op = "get_current_conditions" =>
        /\ Caller.failed = "points" => Returned(LocationSentinel)
        /\ Caller.failed = "second" => Returned(ForecastSentinel)

C2_Witness ==
    /\ Done("get_current_conditions")
    /\ Caller.failed = "second"
    /\ Caller.fetches = 2
    /\ Caller.result = Return(ForecastSentinel)

\* C3: no operation ends by raising: whatever the fetched documents look
\* like, a call that has ended has returned a string.
C3_NoExceptionEscapes ==
    \A t \in Tasks : tasks[t].pc = "done" => tasks[t].result.kind = "return"

\* C4: every snapshot whose temperature (0 when the field is missing) is
\* below the configured minimum gets a "below minimum" alert: stated of the
\* snapshots and alerts get_current_conditions recorded.
C4_BelowMinimumAlert ==
    \A i \in 1..Len(user_interactions) :
        LET details == user_interactions[i].details IN
        details.conditions.temperature < alert_thresholds.temperature.min
        => \E k \in 1..Len(details.alerts) :
               details.alerts[k] =
                   TemperatureAlert(details.conditions.temperature,
                                    BelowMinimum)

IsTemperatureAlert(a) == a.alert = "Temperature Alert"
IsWindAlert(a) == a.alert = "Wind Alert"

\* C5: check_alert_conditions returns at most one temperature alert, a wind
\* alert exactly when wind_speed is present, not 0 and above the wind
\* maximum, whatever the temperature, and the temperature alert first; under
\* the default thresholds (95, 10) gives the one "above maximum" alert,
\* (50, 45) the one wind alert and (50, 10) no alert.
C5_DerivedAlerts ==
    Done("check_alert_conditions") =>
        LET c == Caller.args.conditions
            alerts == Caller.result.value
            wind == {i \in 1..Len(alerts) : IsWindAlert(alerts[i])}
            temp == {i \in 1..Len(alerts) : IsTemperatureAlert(alerts[i])}
        IN
        /\ Caller.result.kind = "return"
        /\ Cardinality(temp) <= 1
        /\ Cardinality(wind) <= 1
        /\ temp \cup wind = 1..Len(alerts)
        /\ wind # {} <=> /\ HasKey(c, "wind_speed")
                         /\ c.wind_speed # 0
                         /\ c.wind_speed > alert_thresholds.wind_speed.max
        /\ \A i \in wind : alerts[i] = WindAlert(c.wind_speed)
        /\ \A i \in temp : \A j \in wind : i < j
        /\ alert_thresholds = DefaultThresholds =>
              /\ c = [temperature |-> 95, wind_speed |-> 10]
                 => alerts = <<TemperatureAlert(95, AboveMaximum)>>
              /\ c = [temperature |-> 50, wind_speed |-> 45]
                 => alerts = <<WindAlert(45)>>
              /\ c = [temperature |-> 50, wind_speed |-> 10] => alerts = <<>>

\* A snapshot below the minimum and above the maximum at once, with wind
C5_Witness ==
    /\ Done("check_alert_conditions")
    /\ alert_thresholds.temperature.min > alert_thresholds.temperature.max
    /\ Caller.args.conditions = [temperature |-> 70, wind_speed |-> 45]
    /\ Len(Caller.result.value) = 2

\* C6: a call issues at most two requests and none after a failed one; the
\* failed request ends the call, which returns an "Unable to fetch ..."
\* string and has appended nothing to weather_trends, user_interactions or
\* alert_history.
C6_NoRetryShortCircuit ==
    /\ Caller.fetches <= 2
    /\ Caller.refetches = 0
    /\ Caller.failed # "none" =>
          /\ Caller.pc = "done"
          /\ Caller.result.kind = "return"
          /\ Caller.result.value \in UnableSentinels
          /\ weather_trends = Caller.pre.weather_trends
          /\ user_interactions = Caller.pre.user_interactions
          /\ alert_history = Caller.pre.alert_history

C6_Witness ==
    /\ Done("get_radar_data")
    /\ Caller.failed = "points"
    /\ Caller.fetches = 1
    /\ Caller.pre.alert_history # <<>>

\* C7: last_queries grows by one record with every failed request and not
\* at all otherwise, and no record ever leaves it: its length is the number
\* of failed requests so far; the call whose request failed returns.
C7_FailureLog ==
    /\ [](Len(last_queries) = gateway_failures)
    /\ [](Caller.failed # "none" =>
              Caller.pc = "done" /\ Caller.result.kind = "return")
    /\ [][/\ IsPrefix(last_queries, last_queries')
          /\ Len(last_queries') - Len(last_queries)
                 = gateway_failures' - gateway_failures]_vars

C7_Witness ==
    /\ gateway_failures = 2
    /\ Len(last_queries) = 2
    /\ Caller.pc = "done"
    /\ Caller.failed = "second"

\* C8: a monitor_conditions call that returns an "Unable to fetch ..."
\* string leaves monitoring_settings as it was before the call.
C8_SettingsAfterFetch ==
    (/\ Done("monitor_conditions")
     /\ Caller.result.kind = "return"
     /\ Caller.result.value \in UnableSentinels)
    => monitoring_settings = Caller.pre.monitoring_settings

\* C8 (amended): monitor_conditions writes monitoring_settings before its
\* first request, right after recording the location: from then on, however
\* the call ends, the settings are the call's lat, lon and interval, stamped
\* with the time of the call.
C8_SettingsAtCall ==
    (Caller.op = "monitor_conditions" /\ Caller.pc # "idle") =>
        monitoring_settings =
            MonitoringSettings(
                Caller.args.lat, Caller.args.lon, Caller.args.interval_minutes,
                location_history[Len(location_history)].timestamp + 1)

C8_Witness ==
    /\ Done("monitor_conditions")
    /\ Caller.result = Return(LocationSentinel)
    /\ Caller.pre.monitoring_settings # EmptyDict
    /\ monitoring_settings # Caller.pre.monitoring_settings

HourlyBlocks ==
    (/\ Done("get_hourly_forecast")
     /\ Caller.result.kind = "return"
     /\ HasKey(Caller.result.value, "blocks"))
    => Len(Caller.result.value.blocks) <= HourlyPeriodLimit

\* C9: get_hourly_forecast changes nothing of the context but
\* location_history: last_queries, alert_history, weather_trends,
\* user_interactions, monitoring_settings and alert_thresholds are as they
\* were before the call, and the report has at most 24 blocks.
C9_HourlyFrame ==
    /\ Caller.op = "get_hourly_forecast" =>
          /\ last_queries = Caller.pre.last_queries
          /\ alert_history = Caller.pre.alert_history
          /\ weather_trends = Caller.pre.weather_trends
          /\ user_interactions = Caller.pre.user_interactions
          /\ monitoring_settings = Caller.pre.monitoring_settings
          /\ alert_thresholds = Caller.pre.alert_thresholds
    /\ HourlyBlocks

\* C9 (amended): get_hourly_forecast appends one record to location_history
\* and, when one of its requests fails, one record to last_queries, and
\* changes nothing else of the context; the report has at most 24 blocks.
C9_HourlyFrameAmended ==
    /\ Caller.op = "get_hourly_forecast" =>
          /\ location_history =
                 LastN(Append(Caller.pre.location_history,
                              location_history[Len(location_history)]),
                       LocationCapacity)
          /\ location_history[Len(location_history)].lat = Caller.args.lat
          /\ location_history[Len(location_history)].lon = Caller.args.lon
          /\ IsPrefix(Caller.pre.last_queries, last_queries)
          /\ Len(last_queries) =
                 Len(Caller.pre.last_queries)
                 + (IF Caller.failed # "none" THEN 1 ELSE 0)
          /\ alert_history = Caller.pre.alert_history
          /\ weather_trends = Caller.pre.weather_trends
          /\ user_interactions = Caller.pre.user_interactions
          /\ monitoring_settings = Caller.pre.monitoring_settings
          /\ alert_thresholds = Caller.pre.alert_thresholds
    /\ HourlyBlocks

\* The hourly request fails after an earlier failure was logged
C9_Witness ==
    /\ Done("get_hourly_forecast")
    /\ Caller.failed = "second"
    /\ Caller.result = Return(HourlySentinel)
    /\ Len(last_queries) = Len(Caller.pre.last_queries) + 1
    /\ Caller.pre.last_queries # <<>>

\* What the summary is to say of the present state
ExpectedSummary(v) ==
    /\ v.last_location =
           IF ins_location = <<>> THEN <<"None">>
           ELSE LET last == ins_location[Len(ins_location)] IN
                <<last.lat, last.lon, last.state>>
    /\ v.recent_queries = Len(last_queries)
    /\ v.active_alerts = Len(alert_history)
    /\ v.monitoring_active = (IF monitor_called THEN "Yes" ELSE "No")
    /\ v.last_interaction =
           IF ins_interaction = <<>> THEN "None"
           ELSE ins_interaction[Len(ins_interaction)].action
    /\ v.weather_trends = Min(SummaryTrendWindow, Len(ins_trend))

\* C10: in every state get_context_summary returns, and what it returns
\* names the last location recorded or "None", the lengths of last_queries
\* and alert_history, monitoring "No" exactly when monitor_conditions was
\* never called, the last interaction's action or "None" and min(3, number
\* of trend samples); calling it changes nothing of the context.
C10_Summary ==
    /\ [](/\ get_context_summary.kind = "return"
          /\ ExpectedSummary(get_context_summary.value)
          /\ Done("get_context_summary") =>
                Caller.result = get_context_summary)
    /\ [][tasks'[MainTask].op = "get_context_summary"
          => context' = context]_vars

C10_Witness ==
    /\ Done("get_context_summary")
    /\ Len(weather_trends) > SummaryTrendWindow
    /\ Caller.result.value.weather_trends = SummaryTrendWindow
    /\ Caller.result.value.monitoring_active = "Yes"
    /\ Caller.result.value.recent_queries = 1
    /\ Caller.result.value.last_location[1] = 41

(***************************************************************************)
(* C11: get_radar_data reports a station of the fetched list whose         *)
(* distance to (lat, lon) is minimal and, of the stations at that          *)
(* distance, the first listed; it returns "No radar stations found         *)
(* nearby." exactly when the fetched list is empty.                        *)
(***************************************************************************)
\* The call ended after a station document with a feature list
StationsFetched ==
    /\ Done("get_radar_data")
    /\ Caller.fetches = 2
    /\ Caller.fetched.status = "ok"
    /\ HasKey(Caller.fetched.json, "features")
Features == Caller.fetched.json.features
Distance(i) == DistanceSq(Features[i], Caller.args.lat, Caller.args.lon)
\* Station i is at the minimal distance and no earlier station is
FirstNearest(i) ==
    /\ \A j \in 1..Len(Features) : Distance(i) <= Distance(j)
    /\ \A j \in 1..(i - 1) : Distance(i) < Distance(j)
RadarReport(i) ==
    [text |-> "Nearest Radar Station:", station |-> Features[i].properties,
     distance_sq |-> Distance(i)]

C11_NearestStation ==
    /\ StationsFetched =>
           IF Features = <<>> THEN Returned(NoStationSentinel)
           ELSE \E i \in 1..Len(Features) :
                    FirstNearest(i) /\ Returned(RadarReport(i))
    /\ (Done("get_radar_data") /\ Returned(NoStationSentinel)) =>
           (StationsFetched /\ Features = <<>>)

\* A farther station listed first, then two different stations at the
\* minimal distance: the earlier of the two is reported
C11_Witness ==
    /\ StationsFetched
    /\ \E k, i, j \in 1..Len(Features) :
           /\ k < i /\ i < j
           /\ Distance(k) > Distance(i)
           /\ Distance(j) = Distance(i)
           /\ Features[j] # Features[i]
           /\ FirstNearest(i)
           /\ Returned(RadarReport(i))

(***************************************************************************)
(* C12: whatever the interleaving of two callers at their awaits, each     *)
(* bounded history holds the last records inserted, up to its capacity:    *)
(* its length is the smaller of the number inserted and the capacity, and  *)
(* a record that is gone was evicted by later inserts.                     *)
(***************************************************************************)
C12_ConcurrentHistories ==
    /\ Len(location_history) = Min(Len(ins_location), LocationCapacity)
    /\ Len(user_interactions) = Min(Len(ins_interaction), InteractionCapacity)
    /\ Len(weather_trends) = Min(Len(ins_trend), TrendCapacity)
    /\ Len(alert_history) = Min(Len(ins_alert), AlertCapacity)
    /\ location_history = LastN(ins_location, LocationCapacity)
    /\ user_interactions = LastN(ins_interaction, InteractionCapacity)
    /\ weather_trends = LastN(ins_trend, TrendCapacity)
    /\ alert_history = LastN(ins_alert, AlertCapacity)

====
